---- MODULE Spec2Model ----
(***************************************************************************)
(* A model of the ClvWallet connector (src/src/index.ts): provider         *)
(* detection and selection, the memoized initialization, the event         *)
(* handlers, connectEagerly and the switch/add negotiation of activate.    *)
(*                                                                         *)
(* JavaScript runs one task at a time.  An action of this model is one     *)
(* task: the synchronous part of a call, a timer callback, the reaction to *)
(* a settled provider request, or an event handler.                        *)
(***************************************************************************)
EXTENDS Integers, Sequences, FiniteSets, TLC

\* ------------------------------------------------------------------ bounds
\* Number of activate / connectEagerly calls made on the connector.
MaxCalls == 2
\* Number of recursive re-entries into activate one call may make.
MaxDepth == 3
\* Longest providers list of the injected provider.
MaxProviders == 2

\* ------------------------------------------------------- program constants
\* error.code === 4902 (unrecognized chain), index.ts line 159.
ChainUnrecognized == 4902

\* Codes a rejected provider request may carry: user rejection (4001) and
\* unrecognized chain.  Each is "some other error" where the code does not
\* test for it.
ErrorCodes == {4001, ChainUnrecognized}

\* --------------------------------------------------------- strings, hex
\* A string is a sequence of one-character strings.
HexDigits == <<"0", "1", "2", "3", "4", "5", "6", "7",
               "8", "9", "a", "b", "c", "d", "e", "f">>

IsHexDigit(ch) == \E k \in 1..16 : HexDigits[k] = ch

DigitValue(ch) == (CHOOSE k \in 1..16 : HexDigits[k] = ch) - 1

\* Number.prototype.toString(16) of a natural number.
RECURSIVE ToString16(_)
ToString16(n) ==
    IF n < 16 THEN <<HexDigits[n + 1]>>
    ELSE ToString16(n \div 16) \o <<HexDigits[(n % 16) + 1]>>

\* Number.prototype.toString(10).
RECURSIVE ToString10(_)
ToString10(n) ==
    IF n < 10 THEN <<HexDigits[n + 1]>>
    ELSE ToString10(n \div 10) \o <<HexDigits[(n % 10) + 1]>>

\* DesiredChainIdHex with a fault: the id is formatted in base 10.
DesiredChainIdHexDecimal(n) == <<"0", "x">> \o ToString10(n)

\* `0x${desiredChainId.toString(16)}`
DesiredChainIdHex(n) == <<"0", "x">> \o ToString16(n)

\* The digits of s read left to right in base 16, up to the first character
\* that is no hex digit.
RECURSIVE ParseDigits(_, _)
ParseDigits(s, acc) ==
    IF s = <<>> \/ ~IsHexDigit(Head(s)) THEN acc
    ELSE ParseDigits(Tail(s), acc * 16 + DigitValue(Head(s)))

HasHexPrefix(s) == Len(s) >= 2 /\ s[1] = "0" /\ s[2] = "x"

\* Number.parseInt(chainId, 16): an optional 0x prefix, then hex digits.
parseChainId(s) ==
    IF HasHexPrefix(s) THEN ParseDigits(SubSeq(s, 3, Len(s)), 0)
    ELSE ParseDigits(s, 0)

\* ------------------------------------------------------------ value sets
\* What the provider may answer to eth_chainId.
ChainIdStrings == { <<"0", "x", "1">>, <<"0", "x", "1", "a">> }

\* What the provider may answer to eth_accounts / eth_requestAccounts, and
\* the payloads of accountsChanged.
AccountLists == { <<>>, <<"0xA">>, <<"0xB", "0xA">> }

\* desiredChainIdOrChainParameters: undefined, a number, or add-chain
\* parameters carrying a chainId.
Args == { [type |-> "undefined", chainId |-> 0],
          [type |-> "number", chainId |-> 0],
          [type |-> "number", chainId |-> 26],
          [type |-> "params", chainId |-> 26] }

\* Sequences of isClover flags: the providers list of an injected provider.
RECURSIVE FlagLists(_)
FlagLists(n) ==
    IF n = 0 THEN { <<>> }
    ELSE FlagLists(n - 1) \cup
         { Append(l, b) : l \in { x \in FlagLists(n - 1) : Len(x) = n - 1 },
                          b \in BOOLEAN }

\* The object found in window.clover: with or without a providers list.
ProviderShapes ==
    { [present |-> TRUE, hasProviders |-> FALSE, providers |-> <<>>] } \cup
    { [present |-> TRUE, hasProviders |-> TRUE, providers |-> l] :
          l \in FlagLists(MaxProviders) }

\* window.clover is undefined.
NoClover == [present |-> FALSE, hasProviders |-> FALSE, providers |-> <<>>]

EventNames == {"connect", "disconnect", "chainChanged", "accountsChanged"}

Methods == {"eth_chainId", "eth_accounts", "eth_requestAccounts",
            "wallet_switchEthereumChain", "wallet_addEthereumChain"}

\* ------------------------------------------------------------------ state
VARIABLES
    clover,           \* window.clover is defined
    eagerConnection,  \* this.eagerConnection is set
    detect,           \* detectProvide's promise: none, timer, resolved, done
    detected,         \* the value detectProvide resolved with, until used
    provider,         \* this.provider
    listeners,        \* handlers registered with provider.on, per event
    listenersOn,      \* the provider the handlers are registered on
    onError,          \* this.onError is set
    deactivated,      \* the host has called deactivate
    calls,            \* the activate / connectEagerly calls made so far
    host              \* the last task that called this.actions, and its calls

vars == <<clover, eagerConnection, detect, detected, provider, listeners,
          listenersOn, onError, deactivated, calls, host>>

\* ---------------------------------------------------- this.actions (host)
\* A call on this.actions: update with a partial state, or resetState.
NoWrite ==
    [op |-> "none", hasChainId |-> FALSE, chainId |-> 0,
     hasAccounts |-> FALSE, accounts |-> <<>>]

\* this.actions.resetState()
ResetState ==
    [op |-> "resetState", hasChainId |-> FALSE, chainId |-> 0,
     hasAccounts |-> FALSE, accounts |-> <<>>]

\* this.actions.update({ chainId, accounts })
Update(c, a) ==
    [op |-> "update", hasChainId |-> TRUE, chainId |-> c,
     hasAccounts |-> TRUE, accounts |-> a]

\* this.actions.update({ chainId })
UpdateChainId(c) ==
    [op |-> "update", hasChainId |-> TRUE, chainId |-> c,
     hasAccounts |-> FALSE, accounts |-> <<>>]

\* this.actions.update({ accounts })
UpdateAccounts(a) ==
    [op |-> "update", hasChainId |-> FALSE, chainId |-> 0,
     hasAccounts |-> TRUE, accounts |-> a]

\* The last task that called this.actions: an event handler (with the
\* event's payload) or a call, and the calls it made, in order.
NoTask ==
    [by |-> "none", chainId |-> <<>>, accounts |-> <<>>, code |-> 0,
     effects |-> <<>>]

\* ------------------------------------------------------------------ calls
NoError == [name |-> "none", code |-> 0]

NoClvWalletError == [name |-> "NoClvWalletError", code |-> 0]

ProviderRpcError(code) == [name |-> "ProviderRpcError", code |-> code]

UndefinedArg == [type |-> "undefined", chainId |-> 0]

NoCall ==
    [kind |-> "none",            \* activate or connectEagerly
     pc |-> "idle",              \* idle, init, requesting, switching, adding, done
     called |-> UndefinedArg,    \* the argument of the caller's activate
     arg |-> UndefinedArg,       \* the argument of the current invocation
     depth |-> 0,                \* recursive re-entries made so far
     wait |-> "none",            \* what isomorphicInitialize returned
     \* the two requests of the current Promise.all
     chainIdSt |-> "none", chainId |-> <<>>, chainIdErr |-> 0,
     accountsSt |-> "none", accounts |-> <<>>, accountsErr |-> 0,
     outcome |-> "pending", error |-> NoError,
     reqs |-> [m \in Methods |-> 0],      \* requests issued, per method
     reqOn |-> [defined |-> FALSE, id |-> 0],  \* receiver of the last one
     switchParam |-> <<>>, addParam |-> <<>>,
     switchErr |-> 0, addErr |-> 0,       \* codes of rejected switch / add
     nStart |-> 0, nCancel |-> 0, nUpdate |-> 0, nReset |-> 0,
     lastUpdate |-> NoWrite]

CallIds == 1..MaxCalls

\* this.provider before initialization has selected one.
NoProvider == [defined |-> FALSE, id |-> 0]

Init ==
    /\ clover = FALSE
    /\ eagerConnection = FALSE
    /\ detect = "none"
    /\ detected = NoClover
    /\ provider = [defined |-> FALSE, id |-> 0]
    /\ listeners = [e \in EventNames |-> 0]
    /\ listenersOn = NoProvider
    /\ onError = FALSE
    /\ deactivated = FALSE
    /\ calls = [i \in CallIds |-> NoCall]
    /\ host = NoTask

\* ------------------------------------------------ detection and selection
\* The browser extension injects window.clover.
Inject ==
    /\ ~clover
    /\ clover' = TRUE
    /\ UNCHANGED <<listenersOn, onError, deactivated,
                   eagerConnection, detect, detected, provider, listeners,
                   calls, host>>

\* What a read of window.clover may yield.  The injected object is read by
\* detectProvide only, so its shape is drawn where it is read.
WindowClover == IF clover THEN ProviderShapes ELSE {NoClover}

\* detectProvide: resolve at once when window.clover is there, else start
\* the timer.
DetectProvide ==
    IF clover
    THEN detect' = "resolved" /\ detected' \in WindowClover
    ELSE detect' = "timer" /\ detected' = NoClover

\* What the caller of isomorphicInitialize awaits: the memoized promise on
\* the first call, an already settled promise once eagerConnection is set.
InitPromise == IF eagerConnection THEN "settled" ELSE "eagerConnection"

\* IsomorphicInitialize with a fault: the memoized promise is not looked at.
IsomorphicInitializeNoMemo == eagerConnection' = TRUE /\ DetectProvide

\* IsomorphicInitialize with a fault: detection is repeated as long as no
\* provider has been selected.
IsomorphicInitializeRetry ==
    IF eagerConnection /\ provider.defined
    THEN UNCHANGED <<eagerConnection, detect, detected>>
    ELSE eagerConnection' = TRUE /\ DetectProvide

\* The synchronous part of isomorphicInitialize.
IsomorphicInitialize ==
    IF eagerConnection
    THEN UNCHANGED <<eagerConnection, detect, detected>>
    ELSE eagerConnection' = TRUE /\ DetectProvide

\* setTimeout(() => resolve(window.clover), 3000)
TimerFires ==
    /\ detect = "timer"
    /\ detect' = "resolved"
    /\ detected' \in WindowClover
    /\ UNCHANGED <<listenersOn, onError, deactivated,
                   clover, eagerConnection, provider, listeners, calls, host>>

\* providers.find((p) => p.isClover): the index of the first flagged entry
\* at or after k, 0 when there is none.
RECURSIVE FindIsClover(_, _)
FindIsClover(l, k) ==
    IF k > Len(l) THEN 0
    ELSE IF l[k] THEN k ELSE FindIsClover(l, k + 1)

\* SelectProvider with a fault: the first entry, whatever the flags.
SelectFirstEntry(m) ==
    IF m.hasProviders /\ Len(m.providers) > 0 THEN 1 ELSE 0

\* The provider chosen from the detected one: 0 is the detected provider
\* itself, k >= 1 is entry k of its providers list.
SelectProvider(m) ==
    IF m.hasProviders /\ Len(m.providers) > 0
    THEN IF FindIsClover(m.providers, 1) # 0
         THEN FindIsClover(m.providers, 1)
         ELSE 1
    ELSE 0

\* The callback of detectProvide().then: select the provider and register
\* the four handlers on it.
InitCallback ==
    /\ detect = "resolved"
    /\ detect' = "done"
    /\ detected' = NoClover
    /\ IF detected.present
       THEN /\ provider' = [defined |-> TRUE, id |-> SelectProvider(detected)]
            /\ listeners' = [e \in EventNames |-> listeners[e] + 1]
            /\ listenersOn' = provider'
       ELSE UNCHANGED <<provider, listeners, listenersOn>>
    /\ UNCHANGED <<onError, deactivated, clover, eagerConnection, calls, host>>

\* ------------------------------------------------- steps of a single call
Rejected(c, err) == [c EXCEPT !.pc = "done", !.outcome = "rejected", !.error = err]

Resolved(c) == [c EXCEPT !.pc = "done", !.outcome = "resolved"]

WithUpdate(c, w) == [c EXCEPT !.nUpdate = @ + 1, !.lastUpdate = w]

WithReset(c) == [c EXCEPT !.nReset = @ + 1]

\* The outcome of one task of a call: the call afterwards and the call it
\* made on this.actions, if any.
Step(c, w) == [call |-> c, write |-> w]

\* Requesting with a fault: the requests go to window.clover, not to the
\* provider selected from its list.
RequestingOnWindowClover(c, accountsMethod) ==
    [c EXCEPT !.pc = "requesting",
              !.chainIdSt = "pending", !.chainId = <<>>, !.chainIdErr = 0,
              !.accountsSt = "pending", !.accounts = <<>>, !.accountsErr = 0,
              !.reqOn = [defined |-> TRUE, id |-> 0],
              !.reqs = [@ EXCEPT !["eth_chainId"] = @ + 1,
                                 ![accountsMethod] = @ + 1]]

\* Promise.all([request eth_chainId, request accountsMethod])
Requesting(c, accountsMethod) ==
    [c EXCEPT !.pc = "requesting",
              !.chainIdSt = "pending", !.chainId = <<>>, !.chainIdErr = 0,
              !.accountsSt = "pending", !.accounts = <<>>, !.accountsErr = 0,
              !.reqOn = provider,
              !.reqs = [@ EXCEPT !["eth_chainId"] = @ + 1,
                                 ![accountsMethod] = @ + 1]]

\* EagerInitialized with a fault: it returns without calling the callback.
EagerInitializedNoCancel(c) ==
    IF ~provider.defined THEN Resolved(c)
    ELSE Requesting(c, "eth_accounts")

\* EagerInitialized with a fault: this.provider is not tested.
EagerInitializedNoCheck(c) == Requesting(c, "eth_accounts")

\* connectEagerly after await isomorphicInitialize()
EagerInitialized(c) ==
    IF ~provider.defined
    THEN Resolved([c EXCEPT !.nCancel = @ + 1])
    ELSE Requesting(c, "eth_accounts")

\* ActivateInitialized with a fault: this.provider is not tested.
ActivateInitializedNoCheck(c) == Requesting(c, "eth_requestAccounts")

\* activate after isomorphicInitialize().then
ActivateInitialized(c) ==
    IF ~provider.defined
    THEN Rejected(c, NoClvWalletError)
    ELSE Requesting(c, "eth_requestAccounts")

\* EagerThen with a fault: it updates whatever the account list.
EagerThenNoLengthTest(c, chainId, accounts) ==
    Step(Resolved(WithUpdate(c, Update(parseChainId(chainId), accounts))),
         Update(parseChainId(chainId), accounts))

\* connectEagerly: .then(([chainId, accounts]) => ...) followed by .catch
EagerThen(c, chainId, accounts) ==
    IF Len(accounts) # 0
    THEN Step(Resolved(WithUpdate(c, Update(parseChainId(chainId), accounts))),
              Update(parseChainId(chainId), accounts))
    ELSE Step(Resolved(WithReset(c)), ResetState)

\* connectEagerly: .catch((error) => ... resetState())
EagerCatch(c, err) == Step(Resolved(WithReset(c)), ResetState)

\* NoSwitchNeeded with a fault: the chain ids are not compared.
NoSwitchNeededFalsyOnly(arg, receivedChainId) ==
    \/ arg.type = "undefined"
    \/ arg.chainId = 0

\* !desiredChainId || receivedChainId === desiredChainId
NoSwitchNeeded(arg, receivedChainId) ==
    \/ arg.type = "undefined"
    \/ arg.chainId = 0
    \/ receivedChainId = arg.chainId

\* request wallet_switchEthereumChain with [{ chainId: desiredChainIdHex }]
Switching(c) ==
    [c EXCEPT !.pc = "switching",
              !.switchParam = DesiredChainIdHex(c.arg.chainId),
              !.reqOn = provider,
              !.reqs = [@ EXCEPT !["wallet_switchEthereumChain"] = @ + 1]]

\* activate: .then(([chainId, accounts]) => ...)
ActivateThen(c, chainId, accounts) ==
    IF NoSwitchNeeded(c.arg, parseChainId(chainId))
    THEN Step(Resolved(WithUpdate(c, Update(parseChainId(chainId), accounts))),
              Update(parseChainId(chainId), accounts))
    ELSE Step(Switching(c), NoWrite)

\* ActivateCatch with a fault: it swallows the error and resets, as
\* connectEagerly does.
ActivateCatchReset(c, err) == Step(Resolved(WithReset(c)), ResetState)

\* activate: the rejection of Promise.all passes through the outer catch
ActivateCatch(c, err) == Step(Rejected(c, err), NoWrite)

\* ShouldAdd with a fault: the argument's type is not looked at.
ShouldAddAnyArg(code, arg) == code = ChainUnrecognized

\* error.code === 4902 && typeof desiredChainIdOrChainParameters !== 'number'
ShouldAdd(code, arg) == code = ChainUnrecognized /\ arg.type # "number"

\* request wallet_addEthereumChain with
\* [{ ...desiredChainIdOrChainParameters, chainId: desiredChainIdHex }]
Adding(c) ==
    [c EXCEPT !.pc = "adding",
              !.addParam = DesiredChainIdHex(c.arg.chainId),
              !.reqOn = provider,
              !.reqs = [@ EXCEPT !["wallet_addEthereumChain"] = @ + 1]]

\* activate: .catch((error: ProviderRpcError) => ...) of the switch request
SwitchCatch(c, code) ==
    IF ShouldAdd(code, c.arg) THEN Adding([c EXCEPT !.switchErr = code])
    ELSE Rejected([c EXCEPT !.switchErr = code], ProviderRpcError(code))

\* Reenter with a fault: this.activate() without the desired chain.
ReenterNoArg(c) ==
    [c EXCEPT !.pc = "init",
              !.arg = UndefinedArg,
              !.depth = @ + 1,
              !.wait = InitPromise]

\* .then(() => this.activate(desiredChainId)), up to the return of
\* isomorphicInitialize
Reenter(c) ==
    [c EXCEPT !.pc = "init",
              !.arg = [type |-> "number", chainId |-> c.arg.chainId],
              !.depth = @ + 1,
              !.wait = InitPromise]

\* The reaction to both requests of Promise.all having resolved.
AllResolved(c, chainId, accounts) ==
    IF c.kind = "activate" THEN ActivateThen(c, chainId, accounts)
    ELSE EagerThen(c, chainId, accounts)

\* The reaction to the first rejection among the requests of Promise.all.
AnyRejected(c, err) ==
    IF c.kind = "activate" THEN ActivateCatch(c, err)
    ELSE EagerCatch(c, err)

\* Apply with a fault: after a disconnect event the call's write is dropped.
ApplyUnlessDisconnected(i, step) ==
    /\ calls' = [calls EXCEPT ![i] = step.call]
    /\ host' = IF step.write.op = "none" \/ host.by = "disconnect" THEN host
               ELSE [NoTask EXCEPT !.by = step.call.kind,
                                   !.effects = <<step.write>>]

\* A task of call i ends: the call's new state, and host when it called
\* this.actions.
Apply(i, step) ==
    /\ calls' = [calls EXCEPT ![i] = step.call]
    /\ host' = IF step.write.op = "none" THEN host
               ELSE [NoTask EXCEPT !.by = step.call.kind,
                                   !.effects = <<step.write>>]

\* ---------------------------------------------------------------- actions
\* Calls are made in the order of their slots.
CanCall(i) ==
    /\ calls[i].kind = "none"
    /\ \A j \in CallIds : j < i => calls[j].kind # "none"

\* activate(a): the synchronous part.
Activate(i, a) ==
    /\ CanCall(i)
    /\ calls' = [calls EXCEPT ![i] =
                    [NoCall EXCEPT !.kind = "activate", !.pc = "init",
                                   !.called = a, !.arg = a,
                                   !.wait = InitPromise]]
    /\ IsomorphicInitialize
    /\ UNCHANGED <<listenersOn, onError, deactivated,
                   clover, provider, listeners, host>>

\* connectEagerly(): the synchronous part.
ConnectEagerly(i) ==
    /\ CanCall(i)
    /\ calls' = [calls EXCEPT ![i] =
                    [NoCall EXCEPT !.kind = "connectEagerly", !.pc = "init",
                                   !.nStart = 1,
                                   !.wait = InitPromise]]
    /\ IsomorphicInitialize
    /\ UNCHANGED <<listenersOn, onError, deactivated,
                   clover, provider, listeners, host>>

\* The promise returned by isomorphicInitialize has settled and its reaction
\* runs.  The memoized promise settles when the callback of detectProvide
\* has run; an already settled one reacts after the callbacks queued before.
InitSettled(c) ==
    IF c.wait = "eagerConnection" THEN detect = "done"
    ELSE detect # "resolved"

Initialized(i) ==
    /\ calls[i].pc = "init"
    /\ InitSettled(calls[i])
    /\ calls' = [calls EXCEPT ![i] =
                    IF calls[i].kind = "activate"
                    THEN ActivateInitialized(calls[i])
                    ELSE EagerInitialized(calls[i])]
    /\ UNCHANGED <<listenersOn, onError, deactivated,
                   clover, eagerConnection, detect, detected, provider,
                   listeners, host>>

\* A request of Promise.all settles.  Once Promise.all has rejected, the
\* settlement of the other request has no reaction.
ChainIdResolves(i, s) ==
    /\ calls[i].chainIdSt = "pending"
    /\ LET c == [calls[i] EXCEPT !.chainIdSt = "resolved", !.chainId = s]
       IN  IF c.pc = "requesting" /\ c.accountsSt = "resolved"
           THEN Apply(i, AllResolved(c, s, c.accounts))
           ELSE calls' = [calls EXCEPT ![i] = c] /\ UNCHANGED host
    /\ UNCHANGED <<listenersOn, onError, deactivated,
                   clover, eagerConnection, detect, detected, provider,
                   listeners>>

AccountsResolve(i, l) ==
    /\ calls[i].accountsSt = "pending"
    /\ LET c == [calls[i] EXCEPT !.accountsSt = "resolved", !.accounts = l]
       IN  IF c.pc = "requesting" /\ c.chainIdSt = "resolved"
           THEN Apply(i, AllResolved(c, c.chainId, l))
           ELSE calls' = [calls EXCEPT ![i] = c] /\ UNCHANGED host
    /\ UNCHANGED <<listenersOn, onError, deactivated,
                   clover, eagerConnection, detect, detected, provider,
                   listeners>>

ChainIdRejects(i, code) ==
    /\ calls[i].chainIdSt = "pending"
    /\ LET c == [calls[i] EXCEPT !.chainIdSt = "rejected", !.chainIdErr = code]
       IN  IF c.pc = "requesting"
           THEN Apply(i, AnyRejected(c, ProviderRpcError(code)))
           ELSE calls' = [calls EXCEPT ![i] = c] /\ UNCHANGED host
    /\ UNCHANGED <<listenersOn, onError, deactivated,
                   clover, eagerConnection, detect, detected, provider,
                   listeners>>

AccountsReject(i, code) ==
    /\ calls[i].accountsSt = "pending"
    /\ LET c == [calls[i] EXCEPT !.accountsSt = "rejected", !.accountsErr = code]
       IN  IF c.pc = "requesting"
           THEN Apply(i, AnyRejected(c, ProviderRpcError(code)))
           ELSE calls' = [calls EXCEPT ![i] = c] /\ UNCHANGED host
    /\ UNCHANGED <<listenersOn, onError, deactivated,
                   clover, eagerConnection, detect, detected, provider,
                   listeners>>

SwitchResolves(i) ==
    /\ calls[i].pc = "switching"
    /\ calls[i].depth < MaxDepth
    /\ calls' = [calls EXCEPT ![i] = Reenter(calls[i])]
    /\ IsomorphicInitialize
    /\ UNCHANGED <<listenersOn, onError, deactivated,
                   clover, provider, listeners, host>>

SwitchRejects(i, code) ==
    /\ calls[i].pc = "switching"
    /\ calls' = [calls EXCEPT ![i] = SwitchCatch(calls[i], code)]
    /\ UNCHANGED <<listenersOn, onError, deactivated,
                   clover, eagerConnection, detect, detected, provider,
                   listeners, host>>

AddResolves(i) ==
    /\ calls[i].pc = "adding"
    /\ calls[i].depth < MaxDepth
    /\ calls' = [calls EXCEPT ![i] = Reenter(calls[i])]
    /\ IsomorphicInitialize
    /\ UNCHANGED <<listenersOn, onError, deactivated,
                   clover, provider, listeners, host>>

AddRejects(i, code) ==
    /\ calls[i].pc = "adding"
    /\ calls' = [calls EXCEPT ![i] =
                    Rejected([calls[i] EXCEPT !.addErr = code],
                             ProviderRpcError(code))]
    /\ UNCHANGED <<listenersOn, onError, deactivated,
                   clover, eagerConnection, detect, detected, provider,
                   listeners, host>>

\* ----------------------------------------------------------- event bridge
\* What a handler does: the calls it makes on this.actions, in order.
ConnectHandler(chainId) == <<UpdateChainId(parseChainId(chainId))>>

\* this.onError(error)
OnError(code) == [op |-> "onError", error |-> ProviderRpcError(code)]

\* DisconnectHandler with a fault: the error is reported before the reset.
DisconnectHandlerErrorFirst(code) ==
    IF onError THEN <<OnError(code), ResetState>> ELSE <<ResetState>>

\* this.actions.resetState(), then this.onError?.(error)
DisconnectHandler(code) ==
    IF onError THEN <<ResetState, OnError(code)>> ELSE <<ResetState>>

ChainChangedHandler(chainId) == <<UpdateChainId(parseChainId(chainId))>>

\* AccountsChangedHandler with a fault: no test for an empty list.
AccountsChangedAlwaysUpdate(accounts) == <<UpdateAccounts(accounts)>>

AccountsChangedHandler(accounts) ==
    IF Len(accounts) = 0 THEN <<ResetState>>
    ELSE <<UpdateAccounts(accounts)>>

\* The selected provider emits an event: the handler registered for it runs.
Emit(e) ==
    /\ listeners[e.by] > 0
    /\ host' = e
    /\ UNCHANGED <<listenersOn, onError, deactivated,
                   clover, eagerConnection, detect, detected, provider,
                   listeners, calls>>

EmitConnect(s) ==
    Emit([NoTask EXCEPT !.by = "connect", !.chainId = s,
                        !.effects = ConnectHandler(s)])

EmitDisconnect(code) ==
    Emit([NoTask EXCEPT !.by = "disconnect", !.code = code,
                        !.effects = DisconnectHandler(code)])

EmitChainChanged(s) ==
    Emit([NoTask EXCEPT !.by = "chainChanged", !.chainId = s,
                        !.effects = ChainChangedHandler(s)])

EmitAccountsChanged(l) ==
    Emit([NoTask EXCEPT !.by = "accountsChanged", !.accounts = l,
                        !.effects = AccountsChangedHandler(l)])

\* ------------------------------------------------------------------- host
\* this.onError is the optional callback the connector inherits; the
\* constructor passes none to super, and the disconnect handler reads the
\* member each time it runs.  The host assigns one.
SetOnError ==
    /\ ~onError
    /\ onError' = TRUE
    /\ UNCHANGED <<listenersOn, deactivated, clover, eagerConnection, detect,
                   detected, provider, listeners, calls, host>>

\* The host calls deactivate.  The class defines no deactivate and keeps no
\* reference to the handlers it registered: nothing of the connector changes.
Deactivate ==
    /\ ~deactivated
    /\ deactivated' = TRUE
    /\ UNCHANGED <<listenersOn, onError, clover, eagerConnection, detect,
                   detected, provider, listeners, calls, host>>

\* ---------------------------------------------------------- specification
\* The tasks of call i.
CallStep(i) ==
    \/ \E a \in Args : Activate(i, a)
    \/ ConnectEagerly(i)
    \/ Initialized(i)
    \/ \E s \in ChainIdStrings : ChainIdResolves(i, s)
    \/ \E l \in AccountLists : AccountsResolve(i, l)
    \/ \E code \in ErrorCodes : ChainIdRejects(i, code)
    \/ \E code \in ErrorCodes : AccountsReject(i, code)
    \/ SwitchResolves(i)
    \/ \E code \in ErrorCodes : SwitchRejects(i, code)
    \/ AddResolves(i)
    \/ \E code \in ErrorCodes : AddRejects(i, code)

\* Injection, the detection timer and the callback of detection.
DetectionStep == Inject \/ TimerFires \/ InitCallback

\* The events of the selected provider.
EventStep ==
    \/ \E s \in ChainIdStrings : EmitConnect(s)
    \/ \E code \in ErrorCodes : EmitDisconnect(code)
    \/ \E s \in ChainIdStrings : EmitChainChanged(s)
    \/ \E l \in AccountLists : EmitAccountsChanged(l)

\* What the host does besides calling activate and connectEagerly.
HostStep == SetOnError \/ Deactivate

\* One call, with the detection, the events and the host around it.
Next == DetectionStep \/ EventStep \/ HostStep \/ CallStep(1)

Spec == Init /\ [][Next]_vars

\* Concurrent calls on one connector, with the detection around them.
NextCalls == DetectionStep \/ \E i \in CallIds : CallStep(i)

SpecCalls == Init /\ [][NextCalls]_vars

\* ------------------------------------------------------------- properties
\* The chain id a provider answer stands for, read off the answer itself.
ExpectedChainId(s) == IF s = <<"0", "x", "1">> THEN 1 ELSE 26

\* Hex of the desired chain id 26.
Hex26 == <<"0", "x", "1", "a">>

PastInit(c) == c.pc \notin {"idle", "init"}

\* The call took the provider-absent path: NoClvWalletError of activate,
\* cancelActivation of connectEagerly.
TookAbsentPath(c) == c.error = NoClvWalletError \/ c.nCancel > 0

\* C1: a call made while an earlier call's detection is pending does not go
\* past initialization before the detection has completed, so once detection
\* has completed with a provider, no call has taken the provider-absent path.
C1_SharedInitialization ==
    \A i \in CallIds :
        /\ PastInit(calls[i]) => detect = "done"
        /\ (detect = "done" /\ provider.defined) => ~TookAbsentPath(calls[i])

\* wallet_addEthereumChain was issued, and it succeeded: add is issued by
\* the caller's own invocation only, which re-enters when add resolves.
AddIssued(c) == c.reqs["wallet_addEthereumChain"] >= 1

AddSucceeded(c) == AddIssued(c) /\ c.depth >= 1

\* C2 as claimed: with add-chain parameters and a switch failing with 4902,
\* exactly one add request is issued, with the hex chain id, and once it has
\* succeeded a second, re-verifying switch request follows: no activation
\* settles successfully after the add without one.
C2_AddThenSwitchAgain ==
    \A i \in CallIds :
        LET c == calls[i] IN
        (c.kind = "activate" /\ c.called.type = "params" /\ AddIssued(c)) =>
            /\ c.reqs["wallet_addEthereumChain"] = 1
            /\ c.addParam = Hex26
            /\ (AddSucceeded(c) /\ c.pc = "done" /\ c.outcome = "resolved")
                   => c.reqs["wallet_switchEthereumChain"] >= 2

\* C2 as amended: exactly one add request is issued, with the hex chain id;
\* once it has succeeded, activate re-enters with the numeric id and asks for
\* the chain id and the accounts again, and a second switch request is issued
\* exactly when both resolve and the chain still differs from the desired one.
C2_AddOnceThenRecheck ==
    \A i \in CallIds :
        LET c == calls[i] IN
        /\ (c.kind = "activate" /\ c.called.type = "params"
               /\ c.switchErr = ChainUnrecognized /\ c.depth = 0)
              => AddIssued(c)
        /\ c.reqs["wallet_addEthereumChain"] <= 1
        /\ (c.kind = "activate" /\ c.called.type = "params" /\ AddIssued(c)) =>
            /\ c.addParam = Hex26
            /\ c.depth = 0 => c.switchErr = ChainUnrecognized
            /\ (AddSucceeded(c) /\ c.depth = 1) =>
                  /\ c.arg = [type |-> "number", chainId |-> 26]
                  /\ (PastInit(c) /\ provider.defined) =>
                        /\ c.reqs["eth_chainId"] = 2
                        /\ c.reqs["eth_requestAccounts"] = 2
                        /\ (c.reqs["wallet_switchEthereumChain"] = 2
                              <=> (/\ c.chainIdSt = "resolved"
                                   /\ c.accountsSt = "resolved"
                                   /\ c.chainId # Hex26))
                        /\ c.reqs["wallet_switchEthereumChain"] \in {1, 2}

\* C2's case: add succeeded and the second switch request was issued.
C2_Witness ==
    \E i \in CallIds :
        /\ calls[i].called.type = "params"
        /\ AddSucceeded(calls[i])
        /\ calls[i].reqs["wallet_switchEthereumChain"] = 2

\* C3: with a bare numeric chain id and the switch failing with 4902,
\* activate rejects with that error and no add request is issued.
C3_NumericNeverAdds ==
    \A i \in CallIds :
        LET c == calls[i] IN
        (c.kind = "activate" /\ c.called.type = "number"
            /\ c.switchErr = ChainUnrecognized) =>
            /\ c.pc = "done"
            /\ c.outcome = "rejected"
            /\ c.error = ProviderRpcError(ChainUnrecognized)
            /\ c.reqs["wallet_addEthereumChain"] = 0
            /\ c.nUpdate = 0

C3_Witness ==
    \E i \in CallIds :
        /\ calls[i].called.type = "number"
        /\ calls[i].depth = 0
        /\ calls[i].switchErr = ChainUnrecognized

\* The caller's own invocation has read a chain id equal to the desired one,
\* or no desired chain was given.
NothingToSwitch(c) ==
    /\ c.kind = "activate"
    /\ c.depth = 0
    /\ c.chainIdSt = "resolved"
    /\ c.accountsSt = "resolved"
    /\ \/ c.called.type = "undefined"
       \/ c.called.chainId = ExpectedChainId(c.chainId)

\* C4: when the desired chain equals the chain id the provider reports, or
\* none is desired, activate issues no switch and no add request and settles
\* with the single update({chainId, accounts}).
C4_NoSwitchWhenOnChain ==
    \A i \in CallIds :
        LET c == calls[i] IN
        NothingToSwitch(c) =>
            /\ c.pc = "done"
            /\ c.outcome = "resolved"
            /\ c.reqs["wallet_switchEthereumChain"] = 0
            /\ c.reqs["wallet_addEthereumChain"] = 0
            /\ c.nUpdate = 1
            /\ c.nReset = 0
            /\ c.lastUpdate.op = "update"
            /\ c.lastUpdate.hasChainId /\ c.lastUpdate.hasAccounts
            /\ c.lastUpdate.chainId = ExpectedChainId(c.chainId)
            /\ c.lastUpdate.accounts = c.accounts

C4_Witness ==
    \E i \in CallIds :
        /\ NothingToSwitch(calls[i])
        /\ calls[i].called = [type |-> "params", chainId |-> 26]
        /\ calls[i].nUpdate = 1

\* eth_requestAccounts of the caller's own invocation rejected with 4001.
UserRejectedAccounts(c) ==
    /\ c.kind = "activate"
    /\ c.accountsSt = "rejected"
    /\ c.accountsErr = 4001

\* C5 as claimed: when eth_requestAccounts rejects with 4001, activate
\* rejects with that error, calls neither update nor resetState and issues no
\* switch or add request, whatever becomes of the eth_chainId request.
C5_UserRejectionSurfaces ==
    \A i \in CallIds :
        LET c == calls[i] IN
        (UserRejectedAccounts(c) /\ c.depth = 0) =>
            /\ c.outcome = "rejected"
            /\ c.error = ProviderRpcError(4001)
            /\ c.nUpdate = 0 /\ c.nReset = 0
            /\ c.reqs["wallet_switchEthereumChain"] = 0
            /\ c.reqs["wallet_addEthereumChain"] = 0

\* C5 as amended: when eth_requestAccounts rejects with 4001, activate
\* rejects with the first rejection among its two requests -- the 4001 error
\* unless eth_chainId has rejected too, and then that error or eth_chainId's
\* -- it calls neither update nor resetState, and that invocation issues no
\* switch or add request.
C5_FirstRejectionSurfaces ==
    \A i \in CallIds :
        LET c == calls[i] IN
        UserRejectedAccounts(c) =>
            /\ c.pc = "done"
            /\ c.outcome = "rejected"
            /\ \/ c.error = ProviderRpcError(4001)
               \/ c.chainIdSt = "rejected"
                    /\ c.error = ProviderRpcError(c.chainIdErr)
            /\ c.nUpdate = 0 /\ c.nReset = 0
            /\ c.reqs["wallet_switchEthereumChain"] = c.depth
            /\ c.depth = 0 => c.reqs["wallet_addEthereumChain"] = 0

\* C5's case: the user rejection arrived while eth_chainId had resolved.
C5_Witness ==
    \E i \in CallIds :
        /\ UserRejectedAccounts(calls[i])
        /\ calls[i].chainIdSt = "resolved"
        /\ calls[i].error = ProviderRpcError(4001)

NoRequests(c) == \A m \in Methods : c.reqs[m] = 0

\* C6: when no provider is found, connectEagerly resolves, calls the
\* cancellation callback exactly once, calls neither update nor resetState
\* and issues no provider request.
C6_EagerCancelsWithoutProvider ==
    \A i \in CallIds :
        LET c == calls[i] IN
        (c.kind = "connectEagerly" /\ PastInit(c) /\ ~provider.defined) =>
            /\ c.pc = "done"
            /\ c.outcome = "resolved"
            /\ c.nStart = 1
            /\ c.nCancel = 1
            /\ c.nUpdate = 0 /\ c.nReset = 0
            /\ NoRequests(c)

\* C6's case: detection ended without a provider and connectEagerly is done.
C6_Witness ==
    \E i \in CallIds :
        /\ calls[i].kind = "connectEagerly"
        /\ calls[i].pc = "done"
        /\ detect = "done" /\ ~provider.defined

\* connectEagerly found this.provider set after initialization.
EagerFoundProvider(c) ==
    c.kind = "connectEagerly" /\ c.reqs["eth_accounts"] >= 1

\* C7: once connectEagerly has found a provider it never rejects and never
\* cancels; it makes exactly one call on this.actions: update({chainId,
\* accounts}) when both requests resolve with a non-empty account list,
\* resetState on the rejection of either or on an empty list.
C7_EagerUpdatesOrResets ==
    \A i \in CallIds :
        LET c == calls[i] IN
        /\ c.kind = "connectEagerly" => c.outcome # "rejected"
        /\ EagerFoundProvider(c) =>
            /\ c.nCancel = 0
            /\ c.pc \in {"requesting", "done"}
            /\ c.pc = "requesting" => c.nUpdate = 0 /\ c.nReset = 0
            /\ c.pc = "done" =>
                /\ c.outcome = "resolved"
                /\ c.nUpdate + c.nReset = 1
                /\ c.nUpdate = 1 <=>
                       (/\ c.chainIdSt = "resolved"
                        /\ c.accountsSt = "resolved"
                        /\ c.accounts # <<>>)
                /\ c.nUpdate = 1 =>
                       /\ c.lastUpdate.op = "update"
                       /\ c.lastUpdate.hasChainId /\ c.lastUpdate.hasAccounts
                       /\ c.lastUpdate.chainId = ExpectedChainId(c.chainId)
                       /\ c.lastUpdate.accounts = c.accounts

\* C7's case: both requests resolved, the account list empty, and the call
\* reset the host state.
C7_Witness ==
    \E i \in CallIds :
        /\ EagerFoundProvider(calls[i])
        /\ calls[i].pc = "done"
        /\ calls[i].chainIdSt = "resolved"
        /\ calls[i].accountsSt = "resolved"
        /\ calls[i].accounts = <<>>
        /\ calls[i].nReset = 1

\* C8: accountsChanged with an empty list calls resetState and never update;
\* with a non-empty list it calls update({accounts}) with that list and never
\* resetState.
C8_AccountsChanged ==
    host.by = "accountsChanged" =>
        /\ Len(host.effects) = 1
        /\ IF host.accounts = <<>>
           THEN host.effects[1].op = "resetState"
           ELSE /\ host.effects[1].op = "update"
                /\ host.effects[1].hasAccounts
                /\ host.effects[1].accounts = host.accounts
                /\ ~host.effects[1].hasChainId

C8_Witness == host.by = "accountsChanged" /\ host.accounts = <<>>

\* An update carrying an empty account list.
EmptyAccountsUpdate(w) == w.op = "update" /\ w.hasAccounts /\ w.accounts = <<>>

\* C9: no operation of the connector calls update with an empty account
\* list; an empty list leads to resetState.
C9_NoEmptyAccountsUpdate ==
    /\ \A k \in 1..Len(host.effects) : ~EmptyAccountsUpdate(host.effects[k])
    /\ \A i \in CallIds : ~EmptyAccountsUpdate(calls[i].lastUpdate)

\* The first flagged entry of the list is entry id; without a flagged entry,
\* id is the first entry; without a list or with an empty one, id is the
\* detected provider itself (0).
SelectedAsClaimed(m, id) ==
    IF m.hasProviders /\ Len(m.providers) > 0
    THEN IF \E k \in 1..Len(m.providers) : m.providers[k]
         THEN /\ id \in 1..Len(m.providers)
              /\ m.providers[id]
              /\ \A j \in 1..(id - 1) : ~m.providers[j]
         ELSE id = 1
    ELSE id = 0

\* m2 has the entries of m up to m's first flagged entry k, and any
\* unflagged entries after it.
SameUpToMatch(m, m2, k) ==
    /\ m2.hasProviders
    /\ Len(m2.providers) >= k
    /\ \A j \in 1..k : m2.providers[j] = m.providers[j]
    /\ \A j \in (k + 1)..Len(m2.providers) : ~m2.providers[j]

\* C10: the callback of detection selects the first flagged entry of a
\* non-empty providers list, else its first entry, else the detected provider
\* itself; unflagged entries after the first flagged one do not matter.
C10_Selection ==
    [][ (detect = "resolved" /\ detect' = "done" /\ detected.present) =>
          /\ provider'.defined
          /\ SelectedAsClaimed(detected, provider'.id)
          /\ \A m2 \in ProviderShapes :
                (detected.hasProviders /\ provider'.id >= 1
                    /\ detected.providers[provider'.id]
                    /\ SameUpToMatch(detected, m2, provider'.id))
                  => SelectProvider(m2) = provider'.id ]_vars

\* C10's case: the second entry was selected, the first one being unflagged.
C10_Witness == provider.defined /\ provider.id = 2

\* C11: when detection has ended without a provider, activate rejects with
\* NoClvWalletError, issues no provider request and calls none of update,
\* resetState and startActivation; nothing has been written to the host.
C11_ActivateRejectsWithoutProvider ==
    \A i \in CallIds :
        LET c == calls[i] IN
        (c.kind = "activate" /\ PastInit(c) /\ detect = "done"
            /\ ~provider.defined) =>
            /\ c.pc = "done"
            /\ c.outcome = "rejected"
            /\ c.error = NoClvWalletError
            /\ NoRequests(c)
            /\ c.nUpdate = 0 /\ c.nReset = 0
            /\ c.nStart = 0 /\ c.nCancel = 0
            /\ host = NoTask

\* C11's case: the detection timer ran out without a provider and activate
\* has rejected.
C11_Witness ==
    \E i \in CallIds :
        /\ calls[i].kind = "activate"
        /\ calls[i].pc = "done"
        /\ calls[i].wait = "eagerConnection"
        /\ detect = "done" /\ ~provider.defined

\* The stages of detection, in the order they are passed.
DetectRank(d) ==
    IF d = "none" THEN 0
    ELSE IF d = "timer" THEN 1
    ELSE IF d = "resolved" THEN 2 ELSE 3

\* C12: whatever calls are made, detection runs at most once -- it never
\* goes back to an earlier stage and its promise, once memoized, stays -- and
\* each of the four handlers is registered at most once, exactly when a
\* provider has been selected.
C12_InitializedAtMostOnce ==
    [][ /\ DetectRank(detect') >= DetectRank(detect)
        /\ eagerConnection => eagerConnection'
        /\ detect # "none" => eagerConnection
        /\ \A e \in EventNames :
              /\ listeners'[e] <= 1
              /\ listeners'[e] >= listeners[e]
              /\ listeners'[e] = 1 <=> provider'.defined ]_vars

\* C12's case: a second call, and a re-entry of activate, after the handlers
\* were registered.
C12_Witness ==
    /\ \A e \in EventNames : listeners[e] = 1
    /\ \E i, j \in CallIds :
          /\ i # j
          /\ calls[i].depth >= 1
          /\ PastInit(calls[j])

\* C13: whenever a call issues a provider request, initialization has
\* completed: the provider is selected and the four handlers are registered
\* on it.
C13_NoRequestBeforeInitialized ==
    [][ \A i \in CallIds :
          (\E m \in Methods : calls'[i].reqs[m] > calls[i].reqs[m]) =>
              /\ detect = "done"
              /\ provider.defined
              /\ listenersOn = provider
              /\ \A e \in EventNames : listeners[e] = 1 ]_vars

\* C13's case: a call made before the detection timer ran out has issued its
\* requests.
C13_Witness ==
    \E i \in CallIds :
        /\ calls[i].wait = "eagerConnection"
        /\ calls[i].depth = 0
        /\ calls[i].pc = "requesting"
        /\ clover

\* C14: after deactivate, no handler the connector registered remains
\* registered on the provider.
C14_DeactivateUnregisters ==
    deactivated => \A e \in EventNames : listeners[e] = 0

\* A disconnect event has just been handled.
DisconnectHandled == host'.by = "disconnect" /\ host' # host

\* C15: the disconnect handler calls resetState first; when this.onError is
\* set it then calls it, once, with the event's error; it never calls update;
\* when this.onError is not set, resetState is all it does.
C15_DisconnectResetsThenReports ==
    [][ DisconnectHandled =>
          /\ Len(host'.effects) >= 1
          /\ host'.effects[1] = ResetState
          /\ \A k \in 1..Len(host'.effects) : host'.effects[k].op # "update"
          /\ IF onError
             THEN /\ Len(host'.effects) = 2
                  /\ host'.effects[2].op = "onError"
                  /\ host'.effects[2].error = ProviderRpcError(host'.code)
             ELSE Len(host'.effects) = 1 ]_vars

\* C15's case: a disconnect event was handled with this.onError set.
C15_Witness ==
    /\ host.by = "disconnect"
    /\ host.code = ChainUnrecognized
    /\ Len(host.effects) = 2

\* C16: an activate call re-enters activate at most twice, even when the
\* wallet reports a successful switch without changing the chain.
C16_ReentriesAtMostTwo ==
    \A i \in CallIds : calls[i].kind = "activate" => calls[i].depth <= 2

\* activate was called with a desired chain that is not zero.
DesiresChain(c) ==
    c.kind = "activate" /\ c.called.type # "undefined" /\ c.called.chainId # 0

\* C17: with a non-zero desired chain, activate updates at most once, and
\* with the desired chain id; every re-entry carries the desired chain and
\* asks for the chain id again; activate never resets.
C17_UpdateCarriesDesiredChain ==
    \A i \in CallIds :
        LET c == calls[i] IN
        DesiresChain(c) =>
            /\ c.arg.chainId = c.called.chainId
            /\ c.depth >= 1 => c.arg.type = "number"
            /\ (c.depth >= 1 /\ PastInit(c)) =>
                   /\ c.reqs["eth_chainId"] = c.depth + 1
                   /\ c.reqs["eth_requestAccounts"] = c.depth + 1
            /\ c.nReset = 0
            /\ c.nUpdate <= 1
            /\ c.nUpdate = 1 =>
                   /\ c.pc = "done" /\ c.outcome = "resolved"
                   /\ c.lastUpdate.op = "update"
                   /\ c.lastUpdate.hasChainId
                   /\ c.lastUpdate.chainId = c.called.chainId
                   /\ c.chainId = Hex26
            /\ c.nUpdate = 0 => c.lastUpdate = NoWrite

\* C17's case: the update came after a switch that left the chain as it was
\* and a second one that changed it.
C17_Witness ==
    \E i \in CallIds :
        /\ DesiresChain(calls[i])
        /\ calls[i].depth = 2
        /\ calls[i].nUpdate = 1

\* A request of the call is pending.
InFlight(c) == c.pc \in {"requesting", "switching", "adding"}

\* The number of resetState calls among the calls a task made.
Resets(effects) ==
    Cardinality({k \in 1..Len(effects) : effects[k].op = "resetState"})

\* Call i has just called update or resetState.
CallWrote(i) ==
    calls'[i].nUpdate + calls'[i].nReset > calls[i].nUpdate + calls[i].nReset

\* C18: a disconnect event handled while a request of a call is pending
\* calls resetState exactly once and leaves the call as it was, pending; and
\* when the call later calls update or resetState, that call is the last one
\* made on the host.
C18_DisconnectInFlight ==
    [][ /\ \A i \in CallIds :
              (DisconnectHandled /\ InFlight(calls[i])) =>
                  /\ Resets(host'.effects) = 1
                  /\ calls'[i] = calls[i]
                  /\ calls'[i].outcome = "pending"
        /\ \A i \in CallIds :
              CallWrote(i) =>
                  /\ host'.by = calls[i].kind
                  /\ host'.effects =
                        <<IF calls'[i].nUpdate > calls[i].nUpdate
                          THEN calls'[i].lastUpdate ELSE ResetState>> ]_vars

\* C18's case: a disconnect event was handled, and is the last write to the
\* host, while the switch request of activate is pending.
C18_Witness ==
    \E i \in CallIds :
        /\ host.by = "disconnect"
        /\ calls[i].kind = "activate"
        /\ calls[i].pc = "switching"

\* C19: once selected, this.provider never changes; every request of every
\* call, re-entries included, has gone to it, and the handlers are
\* registered on it.
C19_OneProvider ==
    [][ /\ provider.defined => provider' = provider
        /\ provider'.defined => listenersOn' = provider'
        /\ \A i \in CallIds :
              ~NoRequests(calls'[i]) =>
                  /\ provider'.defined
                  /\ calls'[i].reqOn = provider' ]_vars

\* C19's case: a re-entry of activate has issued its requests, the selected
\* provider being the second entry of the list.
C19_Witness ==
    \E i \in CallIds :
        /\ calls[i].depth >= 1
        /\ calls[i].pc = "requesting"
        /\ calls[i].reqOn.id = 2

\* Initialization has concluded that there is no provider.
NegativeDetection == detect = "done" /\ ~provider.defined

\* C20: once initialization has concluded that there is no provider, it
\* stays so, whatever is injected later: detection is not run again, no
\* handler is registered, and every call that gets past initialization has
\* rejected with NoClvWalletError (activate) or cancelled (connectEagerly)
\* without a request or a write to the host.
C20_NegativeDetectionIsPermanent ==
    [][ NegativeDetection =>
          /\ NegativeDetection'
          /\ \A e \in EventNames : listeners'[e] = 0
          /\ \A i \in CallIds :
                LET c == calls'[i] IN
                PastInit(c) =>
                    /\ c.pc = "done"
                    /\ NoRequests(c)
                    /\ c.nUpdate = 0 /\ c.nReset = 0
                    /\ IF c.kind = "activate"
                       THEN c.outcome = "rejected" /\ c.error = NoClvWalletError
                       ELSE c.outcome = "resolved" /\ c.nCancel = 1 ]_vars

\* C20's case: a call made after the negative conclusion, with the provider
\* injected by then, has rejected.
C20_Witness ==
    \E i \in CallIds :
        /\ NegativeDetection
        /\ clover
        /\ calls[i].kind = "activate"
        /\ calls[i].wait = "settled"
        /\ calls[i].error = NoClvWalletError

====
